---- MODULE Spec2Model ----
(***************************************************************************)
(* Model of the ISO 8601 duration codec of mitranim/gt: the hand-written   *)
(* parser `Interval.parse` (gt_interval_parse.go), the formatter        *)
(* `Interval.String` / `Interval.AppendTo` (gt_interval.go) and the        *)
(* reference regexp `reInterval` (gt_util.go).                             *)
(*                                                                         *)
(* A Go string is a sequence of one-character strings; `cur` is the Go     *)
(* (0-based) byte index, so the byte `src[cur]` is At(src, cur).           *)
(* Go `int` is 64 bits wide; every number that the bounded inputs below    *)
(* can produce has at most four decimal digits, so no arithmetic wraps.    *)
(***************************************************************************)
EXTENDS Integers, Sequences, FiniteSets, TLC

VARIABLES
    self,      \* the receiver `*self` of Parse (an Interval)
    old,       \* history: the value the receiver held when Parse was called
    v,         \* the Interval that was formatted to obtain src (zero if none)
    mode,      \* how src was obtained: "new", "text" (caller text), "value" (v.String())
    src,       \* the string being parsed
    cur,       \* parse: cursor into src
    num,       \* parse: the last integer read
    buf,       \* parse: the local Interval being filled
    pc,        \* parse: the label control is at
    panicVal,  \* the value of a panic in flight ("nil" when none)
    err,       \* the error returned by Parse
    asg,       \* history: the fields of buf assigned so far, in order
    out,       \* the result of a String() call made after a successful Parse
    lhs,       \* value operations: the receiver of the method
    rhs,       \* value operations: the Interval argument
    dur,       \* value operations: the time.Duration or int argument
    op,        \* the method applied last ("none" before any)
    res,       \* value operations: what the method returned
    recvTyp,   \* encoding: the type of the receiver, "Interval" or "NullInterval"
    arg,       \* encoding: the argument of the decoding method
    ret,       \* encoding: what the encoding method returned
    parsed     \* encoding: whether the call reached the grammar parser

\* The state of a parse in progress.
parseVars == <<v, mode, src, cur, num, buf, pc, panicVal, asg, out>>

\* The state of the value operations.
opVars == <<lhs, rhs, dur, res>>

\* The state of the encoding and decoding methods.
codecVars == <<recvTyp, arg, ret, parsed>>

vars == <<self, old, err, op, parseVars, opVars, codecVars>>

----------------------------------------------------------------------------
(* Bounds of the model. *)

\* Longest input over the whole alphabet.
MaxLen == 4
\* Longest tail, over the grammar's own characters, of an input "P<tail>".
MaxTail == 5
\* Largest magnitude of a field of a formatted Interval (full product).
MaxField == 1

----------------------------------------------------------------------------
(* Interval values. *)

Fields == <<"Years", "Months", "Days", "Hours", "Minutes", "Seconds">>

IntervalFrom(years, months, days, hours, mins, secs) ==
    [Years |-> years, Months |-> months, Days |-> days,
     Hours |-> hours, Minutes |-> mins, Seconds |-> secs]

DateInterval(years, months, days) == IntervalFrom(years, months, days, 0, 0, 0)

TimeInterval(hours, mins, secs) == IntervalFrom(0, 0, 0, hours, mins, secs)

ZeroValue == IntervalFrom(0, 0, 0, 0, 0, 0)

IsZero(iv) == iv = ZeroValue

HasDate(iv) == iv.Years # 0 \/ iv.Months # 0 \/ iv.Days # 0

HasTime(iv) == iv.Hours # 0 \/ iv.Minutes # 0 \/ iv.Seconds # 0

----------------------------------------------------------------------------
(* Characters and integers. *)

DigitChars == <<"0", "1", "2", "3", "4", "5", "6", "7", "8", "9">>

charsetDigitDec == {DigitChars[i] : i \in 1..10}

undigit(char) == (CHOOSE i \in 1..10 : DigitChars[i] = char) - 1

inc(n, char) == (n * 10) + undigit(char)

At(s, i) == s[i + 1]

\* strconv.AppendInt(nil, val, 10) for val >= 0.
RECURSIVE FormatUint(_)
FormatUint(n) ==
    IF n < 10 THEN <<DigitChars[n + 1]>>
    ELSE FormatUint(n \div 10) \o <<DigitChars[(n % 10) + 1]>>

\* strconv.AppendInt(nil, val, 10).
AppendInt(val) == IF val < 0 THEN <<"-">> \o FormatUint(-val) ELSE FormatUint(val)

----------------------------------------------------------------------------
(* The formatter. *)

zeroInterval == <<"P", "T", "0", "S">>

\* Mutant: a zero field is written like any other.
appendIntervalPartZero(b, val, delim) == (b \o AppendInt(val)) \o <<delim>>

appendIntervalPart(b, val, delim) ==
    IF val = 0 THEN b ELSE (b \o AppendInt(val)) \o <<delim>>

\* Mutant: the 'T' is written whether or not there is a time part.
AppendToAlwaysT(iv, b) ==
    IF IsZero(iv) THEN b \o zeroInterval
    ELSE
        LET b1 == b \o <<"P">>
            b2 == appendIntervalPart(b1, iv.Years, "Y")
            b3 == appendIntervalPart(b2, iv.Months, "M")
            b4 == appendIntervalPart(b3, iv.Days, "D")
            b5 == b4 \o <<"T">>
            b6 == appendIntervalPart(b5, iv.Hours, "H")
            b7 == appendIntervalPart(b6, iv.Minutes, "M")
        IN  appendIntervalPart(b7, iv.Seconds, "S")

AppendTo(iv, b) ==
    IF IsZero(iv) THEN b \o zeroInterval
    ELSE
        LET b1 == b \o <<"P">>
            b2 == appendIntervalPart(b1, iv.Years, "Y")
            b3 == appendIntervalPart(b2, iv.Months, "M")
            b4 == appendIntervalPart(b3, iv.Days, "D")
        IN  IF HasTime(iv)
            THEN LET b5 == b4 \o <<"T">>
                     b6 == appendIntervalPart(b5, iv.Hours, "H")
                     b7 == appendIntervalPart(b6, iv.Minutes, "M")
                 IN  appendIntervalPart(b7, iv.Seconds, "S")
            ELSE b4

String(iv) == IF IsZero(iv) THEN zeroInterval ELSE AppendTo(iv, <<>>)

----------------------------------------------------------------------------
(* The parser.  A parse state is a record m of the locals of `parse`:       *)
(* pc (the label), cur, num, buf, the history asg and the panic in flight. *)

RECURSIVE scanDigits(_, _, _)
scanDigits(s, c, n) ==
    IF c < Len(s) /\ At(s, c) \in charsetDigitDec
    THEN scanDigits(s, c + 1, inc(n, At(s, c)))
    ELSE [num |-> n, cur |-> c]

\* Mutant: the sign is consumed but not applied.
popPrefixIntUnsigned(s, c) ==
    LET neg == c < Len(s) /\ At(s, c) = "-"
        c1  == IF neg THEN c + 1 ELSE c
    IN  IF c1 < Len(s) /\ At(s, c1) \in charsetDigitDec
        THEN LET r == scanDigits(s, c1 + 1, undigit(At(s, c1)))
             IN  [panic |-> "nil", num |-> r.num, cur |-> r.cur]
        ELSE [panic |-> "errDigitEof", num |-> 0, cur |-> c]

\* Mutant: a '+' sign is accepted as well.
popPrefixIntPlus(s, c) ==
    LET signed == c < Len(s) /\ At(s, c) \in {"-", "+"}
        c1  == IF signed THEN c + 1 ELSE c
        sig == IF signed /\ At(s, c) = "-" THEN -1 ELSE 1
    IN  IF c1 < Len(s) /\ At(s, c1) \in charsetDigitDec
        THEN LET r == scanDigits(s, c1 + 1, undigit(At(s, c1)))
             IN  [panic |-> "nil", num |-> sig * r.num, cur |-> r.cur]
        ELSE [panic |-> "errDigitEof", num |-> 0, cur |-> c]

\* Mutant: a missing digit is reported as a format mismatch.
popPrefixIntMismatch(s, c) ==
    LET neg == c < Len(s) /\ At(s, c) = "-"
        c1  == IF neg THEN c + 1 ELSE c
        sig == IF neg THEN -1 ELSE 1
    IN  IF c1 < Len(s) /\ At(s, c1) \in charsetDigitDec
        THEN LET r == scanDigits(s, c1 + 1, undigit(At(s, c1)))
             IN  [panic |-> "nil", num |-> sig * r.num, cur |-> r.cur]
        ELSE [panic |-> "errFormatMismatch", num |-> 0, cur |-> c]

\* Returns [panic, num, cur]; panic is "nil" when the call returns normally.
popPrefixInt(s, c) ==
    LET neg == c < Len(s) /\ At(s, c) = "-"
        c1  == IF neg THEN c + 1 ELSE c
        sig == IF neg THEN -1 ELSE 1
    IN  IF c1 < Len(s) /\ At(s, c1) \in charsetDigitDec
        THEN LET r == scanDigits(s, c1 + 1, undigit(At(s, c1)))
             IN  [panic |-> "nil", num |-> sig * r.num, cur |-> r.cur]
        ELSE [panic |-> "errDigitEof", num |-> 0, cur |-> c]

Panic(m, val) == [m EXCEPT !.pc = "panic", !.panic = val]

Goto(m, label) == [m EXCEPT !.pc = label]

\* `case <letter>: cur++; buf.<field> = num; goto <next>` over the cases of
\* one switch; cases is a sequence of <<letter, field, next label>>.
unitSwitch(s, m, cases) ==
    LET hit == {i \in 1..Len(cases) : cases[i][1] = At(s, m.cur)}
    IN  IF hit = {} THEN Panic(m, "errFormatMismatch")
        ELSE LET c == cases[CHOOSE i \in hit : TRUE]
             IN  [m EXCEPT !.cur = @ + 1,
                           !.buf = [@ EXCEPT ![c[2]] = m.num],
                           !.asg = Append(@, c[2]),
                           !.pc = c[3]]

\* `num, cur = popPrefixInt(src, cur)`, the end-of-input check and the switch.
intUnit(s, m, cases) ==
    LET r == popPrefixInt(s, m.cur)
    IN  IF r.panic # "nil" THEN Panic(m, r.panic)
        ELSE LET m1 == [m EXCEPT !.num = r.num, !.cur = r.cur]
             IN  IF ~(m1.cur < Len(s)) THEN Panic(m1, "EOF")
                 ELSE unitSwitch(s, m1, cases)

\* The head of a date label: end of input, or 'T'.
dateLabel(s, m, cases) ==
    IF ~(m.cur < Len(s)) THEN Goto(m, "done")
    ELSE IF At(s, m.cur) = "T" THEN [m EXCEPT !.cur = @ + 1, !.pc = "hours"]
    ELSE intUnit(s, m, cases)

\* The head of a time label: end of input.
timeLabel(s, m, cases) ==
    IF ~(m.cur < Len(s)) THEN Goto(m, "done")
    ELSE intUnit(s, m, cases)

start(s, m) ==
    IF ~(m.cur < Len(s)) THEN Panic(m, "EOF")
    ELSE IF At(s, m.cur) = "P" THEN [m EXCEPT !.cur = @ + 1, !.pc = "years"]
    ELSE Panic(m, "errFormatMismatch")

\* Mutant: the end of input right after 'P' is an error.
yearsNoEnd(s, m) ==
    IF ~(m.cur < Len(s)) THEN Panic(m, "EOF")
    ELSE dateLabel(s, m, << <<"Y", "Years", "months">>,
                            <<"M", "Months", "days">>,
                            <<"D", "Days", "time">> >>)

\* Mutant: after a 'Y' unit the parser stays at the label years.
yearsRepeat(s, m) ==
    dateLabel(s, m, << <<"Y", "Years", "years">>,
                       <<"M", "Months", "days">>,
                       <<"D", "Days", "time">> >>)

years(s, m) ==
    dateLabel(s, m, << <<"Y", "Years", "months">>,
                       <<"M", "Months", "days">>,
                       <<"D", "Days", "time">> >>)

\* Mutant: a second 'Y' is accepted after the years.
monthsAsYears(s, m) == years(s, m)

months(s, m) ==
    dateLabel(s, m, << <<"M", "Months", "days">>,
                       <<"D", "Days", "time">> >>)

days(s, m) ==
    dateLabel(s, m, << <<"D", "Days", "time">> >>)

time(s, m) ==
    IF ~(m.cur < Len(s)) THEN Goto(m, "done")
    ELSE IF At(s, m.cur) = "T" THEN [m EXCEPT !.cur = @ + 1, !.pc = "hours"]
    ELSE Panic(m, "errFormatMismatch")

\* Mutant: the end of input right after 'T' is an error.
hoursStrict(s, m) ==
    intUnit(s, m, << <<"H", "Hours", "minutes">>,
                     <<"M", "Minutes", "seconds">>,
                     <<"S", "Seconds", "eof">> >>)

hours(s, m) ==
    timeLabel(s, m, << <<"H", "Hours", "minutes">>,
                       <<"M", "Minutes", "seconds">>,
                       <<"S", "Seconds", "eof">> >>)

minutes(s, m) ==
    timeLabel(s, m, << <<"M", "Minutes", "seconds">>,
                       <<"S", "Seconds", "eof">> >>)

seconds(s, m) ==
    timeLabel(s, m, << <<"S", "Seconds", "eof">> >>)

\* Mutant: what follows the seconds is not looked at.
eofLax(s, m) == Goto(m, "done")

eof(s, m) ==
    IF m.cur < Len(s) THEN Panic(m, "errFormatMismatch") ELSE Goto(m, "done")

\* The locals of `parse` on entry.
Entry ==
    [pc |-> "start", cur |-> 0, num |-> 0, buf |-> ZeroValue,
     asg |-> <<>>, panic |-> "nil"]

\* One step of `parse` from the label m.pc.
step(s, m) ==
    CASE m.pc = "start"   -> start(s, m)
      [] m.pc = "years"   -> years(s, m)
      [] m.pc = "months"  -> months(s, m)
      [] m.pc = "days"    -> days(s, m)
      [] m.pc = "time"    -> time(s, m)
      [] m.pc = "hours"   -> hours(s, m)
      [] m.pc = "minutes" -> minutes(s, m)
      [] m.pc = "seconds" -> seconds(s, m)
      [] m.pc = "eof"     -> eof(s, m)

----------------------------------------------------------------------------
(* Errors. *)

NilErr == [cause |-> "nil", src |-> <<>>, typ |-> ""]

\* A variant of errParse that loses the error.
errParseSilent(cause, s, typ) == NilErr

\* A variant of errParse that does not keep the input.
errParseNoInput(cause, s, typ) ==
    IF cause # "nil" THEN [cause |-> cause, src |-> <<>>, typ |-> typ] ELSE NilErr

\* errParse: fmt.Errorf(`[gt] failed to parse %q into %v: %w`, src, typ, cause)
errParse(cause, s, typ) ==
    IF cause # "nil" THEN [cause |-> cause, src |-> s, typ |-> typ] ELSE NilErr

\* errors.Is(e, target) along the %w chain: errDigitEof wraps io.EOF.
errorsIs(e, target) ==
    \/ e.cause = target
    \/ e.cause = "errDigitEof" /\ target = "EOF"

\* The result [err, val] of Interval.parse(s) on a receiver holding recv.
RECURSIVE run(_, _)
run(s, m) == IF m.pc \in {"done", "panic"} THEN m ELSE run(s, step(s, m))

\* A variant of parse that writes to the receiver as it goes, without buf.
parsePartial(recv, s) ==
    LET m == run(s, Entry)
    IN  IF m.pc = "done" THEN [err |-> NilErr, val |-> m.buf]
        ELSE [err |-> errParse(m.panic, s, "interval"),
              val |-> [f \in DOMAIN recv |->
                          IF \E i \in 1..Len(m.asg) : m.asg[i] = f
                          THEN m.buf[f] ELSE recv[f]]]

parse(recv, s) ==
    LET m == run(s, Entry)
    IN  IF m.pc = "done" THEN [err |-> NilErr, val |-> m.buf]
        ELSE [err |-> errParse(m.panic, s, "interval"), val |-> recv]

----------------------------------------------------------------------------
(* The reference regexp reInterval:                                         *)
(*   ^P(?:(-?\d+)Y)?(?:(-?\d+)M)?(?:(-?\d+)D)?                              *)
(*     (?:T(?:(-?\d+)H)?(?:(-?\d+)M)?(?:(-?\d+)S)?)?$                       *)
(* A configuration [pos, cap] is a position reached in s (the number of     *)
(* characters matched) with the text captured by each group so far.         *)

\* -?\d+ : an optional '-', then one or more decimal digits.
reInt(t) ==
    LET d == IF t # <<>> /\ t[1] = "-" THEN SubSeq(t, 2, Len(t)) ELSE t
    IN  d # <<>> /\ \A i \in 1..Len(d) : d[i] \in charsetDigitDec

\* (-?\d+)L from position i: the positions where a match of the group ends.
reGroupEnds(s, i, letter) ==
    {j \in (i + 2)..Len(s) : s[j] = letter /\ reInt(SubSeq(s, i + 1, j - 1))}

\* (?:(-?\d+)L)? applied to a set of configurations.
reOptGroup(s, C, letter, field) ==
    C \cup UNION {{[pos |-> j, cap |-> [c.cap EXCEPT ![field] = SubSeq(s, c.pos + 1, j - 1)]] :
                       j \in reGroupEnds(s, c.pos, letter)} : c \in C}

NoCaptures == [f \in {Fields[i] : i \in 1..6} |-> <<>>]

\* The configurations of the complete matches of reInterval on s.
reInterval(s) ==
    LET c0 == IF s # <<>> /\ s[1] = "P" THEN {[pos |-> 1, cap |-> NoCaptures]} ELSE {}
        c1 == reOptGroup(s, c0, "Y", "Years")
        c2 == reOptGroup(s, c1, "M", "Months")
        c3 == reOptGroup(s, c2, "D", "Days")
        t0 == {[c EXCEPT !.pos = @ + 1] : c \in {x \in c3 : x.pos < Len(s) /\ s[x.pos + 1] = "T"}}
        t1 == reOptGroup(s, t0, "H", "Hours")
        t2 == reOptGroup(s, t1, "M", "Minutes")
        t3 == reOptGroup(s, t2, "S", "Seconds")
    IN  {c \in c3 \cup t3 : c.pos = Len(s)}

RECURSIVE Pow10(_)
Pow10(n) == IF n = 0 THEN 1 ELSE 10 * Pow10(n - 1)

RECURSIVE SumTo(_, _)
SumTo(f, n) == IF n = 0 THEN 0 ELSE f[n] + SumTo(f, n - 1)

\* strconv.Atoi on a text that matches -?\d+ : the positional value.
Atoi(t) ==
    LET neg == t[1] = "-"
        d   == IF neg THEN SubSeq(t, 2, Len(t)) ELSE t
        val == SumTo([i \in 1..Len(d) |-> undigit(d[i]) * Pow10(Len(d) - i)], Len(d))
    IN  IF neg THEN -val ELSE val

\* parseIntOpt: the value of a capture group, 0 when the group is absent.
parseIntOpt(t) == IF Len(t) = 0 THEN 0 ELSE Atoi(t)

\* The Interval a match stands for.
reValue(c) ==
    IntervalFrom(parseIntOpt(c.cap.Years), parseIntOpt(c.cap.Months),
                 parseIntOpt(c.cap.Days), parseIntOpt(c.cap.Hours),
                 parseIntOpt(c.cap.Minutes), parseIntOpt(c.cap.Seconds))

----------------------------------------------------------------------------
(* The inputs. *)

Alphabet == {"P", "T", "Y", "M", "D", "H", "S", "-", "+", "0", "1", "X"}

TailAlphabet == {"T", "Y", "M", "D", "H", "S", "-", "1"}

Strings(A, n) == UNION {[1..k -> A] : k \in 0..n}

\* The inputs of TestInterval/Parse_invalid.
InvalidExamples ==
    {
      <<>>,
      <<" ">>,
      <<"1", "Y">>,
      <<"1", "H">>,
      <<"T", "1", "H">>,
      <<"P", "0">>,
      <<"P", "T", "0">>,
      <<"P", "-">>,
      <<"P", "-", "0">>,
      <<"P", "-", "1">>,
      <<"P", "T", "-">>,
      <<"P", "T", "-", "0">>,
      <<"P", "T", "-", "1">>,
      <<"P", "1", "Y", "-">>,
      <<"P", "1", "Y", "-", "0">>,
      <<"P", "1", "Y", "-", "1">>,
      <<"P", "1", "Y", "T", "-">>,
      <<"P", "1", "Y", "T", "-", "0">>,
      <<"P", "1", "Y", "T", "-", "1">>,
      <<"P", "-", "-", "0", "Y">>,
      <<"P", "T", "-", "-", "0", "H">>,
      <<"P", "+", "0", "Y">>,
      <<"P", "T", "+", "0", "H">> }

\* Inputs in which a unit repeats or comes out of order.
OrderExamples ==
    {
      <<"P", "1", "Y", "1", "Y">>,
      <<"P", "1", "M", "1", "Y">>,
      <<"P", "1", "D", "1", "M">>,
      <<"P", "T", "1", "H", "1", "H">>,
      <<"P", "T", "1", "M", "1", "H">>,
      <<"P", "T", "1", "S", "1", "M">>,
      <<"P", "1", "D", "T", "1", "H", "1", "D">>,
      <<"P", "1", "H">>,
      <<"P", "T", "1", "Y">>,
      <<"P", "1", "D", "1", "Y">>,
      <<"P", "T", "1", "S", "1", "H">>,
      <<"P", "1", "Y", "T", "1", "H", "T", "1", "M">>,
      <<"P", "1", "D", "T", "1", "S", "T">> }

\* Inputs with a character that fits no token.
GarbageExamples ==
    {
      <<"P", "1", "Y", "X">>,
      <<"P", "T", "1", "H", "X">>,
      <<"P", "1", "D", "X">>,
      <<"P", "T", "1", "S", "X">>,
      <<"P", "1", "M", "X">>,
      <<"P", "T", "1", "M", "X">>,
      <<"P", "X">>,
      <<"P", "T", "X">>,
      <<"P", "1", "X">>,
      <<"P", "T", "1", "X">>,
      <<"P", "-", "Y">>,
      <<"P", "-", "X">>,
      <<"P", "1", "Y", "+", "1", "M">>,
      <<"P", "1", "Y", " ", "1", "M">> }

\* Inputs of the documentation and of the tests that parse.
ValidExamples ==
    {
      <<"P">>,
      <<"P", "T">>,
      <<"P", "T", "0", "S">>,
      <<"P", "1", "Y", "2", "M", "3", "D", "T", "4", "H", "5", "M", "6", "S">>,
      <<"P", "1", "2", "Y", "2", "3", "M", "3", "4", "D", "T", "4", "5", "H", "5", "6", "M", "6", "7", "S">>,
      <<"P", "-", "1", "Y">>,
      <<"P", "T", "1", "H">>,
      <<"P", "3", "D">>,
      <<"P", "0", "D", "T", "0", "H">>,
      <<"P", "1", "Y", "T">>,
      <<"P", "0", "1", "9", "Y">>,
      <<"P", "-", "0", "Y">>,
      <<"P", "-", "0", "1", "9", "M">> }

\* intervalParts of the tests: the spellings of one optional field, with the
\* value each must parse to.
intervalParts(suffix) ==
    << [int |-> 0,   string |-> <<>>],
       [int |-> 0,   string |-> <<"0", suffix>>],
       [int |-> 0,   string |-> <<"-", "0", suffix>>],
       [int |-> 1,   string |-> <<"1", suffix>>],
       [int |-> -1,  string |-> <<"-", "1", suffix>>],
       [int |-> 19,  string |-> <<"1", "9", suffix>>],
       [int |-> 19,  string |-> <<"0", "1", "9", suffix>>],
       [int |-> -19, string |-> <<"-", "1", "9", suffix>>],
       [int |-> -19, string |-> <<"-", "0", "1", "9", suffix>>] >>

PartStrings(suffix, idx) == {intervalParts(suffix)[i].string : i \in idx}

\* Every spelling of a part, and the spellings used in the six-field products.
AllParts == 1..9
FewParts == {1, 4, 8, 9}

Date(idx) ==
    {(y \o m) \o d : y \in PartStrings("Y", idx), m \in PartStrings("M", idx),
                     d \in PartStrings("D", idx)}

Clock(idx) ==
    {(h \o m) \o s : h \in PartStrings("H", idx), m \in PartStrings("M", idx),
                     s \in PartStrings("S", idx)}

\* The inputs of TestInterval/Parse: `P`+YMD, `P`+YMD+`T`, `P`+YMD+`T`+HMS.
PartInputs ==
    {<<"P">> \o d : d \in Date(AllParts)}
    \cup {(<<"P">> \o d) \o <<"T">> : d \in Date(AllParts)}
    \cup {<<"P", "T">> \o c : c \in Clock(AllParts)}
    \cup {((<<"P">> \o d) \o <<"T">>) \o c : d \in Date(FewParts), c \in Clock(FewParts)}

Inputs ==
    Strings(Alphabet, MaxLen)
    \cup {<<"P">> \o t : t \in Strings(TailAlphabet, MaxTail)}
    \cup InvalidExamples \cup OrderExamples \cup GarbageExamples \cup ValidExamples
    \cup PartInputs

\* The values of the documentation and tests with fields of several digits.
SampleValues ==
    { IntervalFrom(1, 2, 3, 4, 5, 6),
      IntervalFrom(12, 23, 34, 45, 56, 67),
      IntervalFrom(-19, 0, 100, 0, -120, 7),
      IntervalFrom(0, 0, 0, 0, 0, -1000),
      IntervalFrom(10, -10, 0, 0, 0, 0),
      IntervalFrom(0, 0, 0, 101, 0, 0) }

FieldRange == (-MaxField)..MaxField

Values ==
    {IntervalFrom(y, mo, d, h, mi, s) :
        y \in FieldRange, mo \in FieldRange, d \in FieldRange,
        h \in FieldRange, mi \in FieldRange, s \in FieldRange}
    \cup SampleValues

\* The receiver before the call: a fresh value, or one holding earlier data.
Receivers == {ZeroValue, IntervalFrom(9, 8, 7, 6, 5, 4)}

----------------------------------------------------------------------------
(* The length of the output, computed before writing. *)

\* The loop of intStrLen: one more for every decimal digit of a positive val.
RECURSIVE intStrLenLoop(_, _)
intStrLenLoop(val, n) ==
    IF val > 0 THEN intStrLenLoop(val \div 10, n + 1) ELSE n

\* func intStrLen: one for the sign of a negative val, then the loop, which
\* only runs while val > 0.
intStrLen(val) == intStrLenLoop(val, IF val < 0 THEN 1 ELSE 0)

\* func addIntervalPartLen: a non-zero field takes its digits and one letter.
addIntervalPartLen(n, val) ==
    IF val # 0 THEN n + 1 + intStrLen(val) ELSE n

\* Interval.bufLen: the size AppendTo asks the buffer to grow by.
bufLen(iv) ==
    IF IsZero(iv) THEN Len(zeroInterval)
    ELSE LET n0 == 1
             n1 == addIntervalPartLen(n0, iv.Years)
             n2 == addIntervalPartLen(n1, iv.Months)
             n3 == addIntervalPartLen(n2, iv.Days)
             n4 == IF HasTime(iv) THEN n3 + 1 ELSE n3
             n5 == addIntervalPartLen(n4, iv.Hours)
             n6 == addIntervalPartLen(n5, iv.Minutes)
         IN  addIntervalPartLen(n6, iv.Seconds)

----------------------------------------------------------------------------
(* Arithmetic on values.  Fields stay far from the limits of a 64-bit int. *)

\* A variant of Add that carries whole minutes out of the seconds.
AddCarry(x, y) ==
    LET sec == x.Seconds + y.Seconds
        carry == IF sec >= 60 THEN 1 ELSE 0
    IN  IntervalFrom(x.Years + y.Years, x.Months + y.Months, x.Days + y.Days,
                     x.Hours + y.Hours, x.Minutes + y.Minutes + carry,
                     sec - 60 * carry)

\* Interval.Add
Add(x, y) ==
    [Years   |-> x.Years + y.Years,
     Months  |-> x.Months + y.Months,
     Days    |-> x.Days + y.Days,
     Hours   |-> x.Hours + y.Hours,
     Minutes |-> x.Minutes + y.Minutes,
     Seconds |-> x.Seconds + y.Seconds]

\* A variant of Neg that leaves the time part alone.
NegDateOnly(x) ==
    IntervalFrom(-x.Years, -x.Months, -x.Days, x.Hours, x.Minutes, x.Seconds)

\* Interval.Neg
Neg(x) ==
    [Years   |-> -x.Years,
     Months  |-> -x.Months,
     Days    |-> -x.Days,
     Hours   |-> -x.Hours,
     Minutes |-> -x.Minutes,
     Seconds |-> -x.Seconds]

\* A variant of Sub that borrows a minute when the seconds go negative.
SubBorrow(x, y) ==
    LET t == Add(x, Neg(y))
    IN  IF t.Seconds < 0
        THEN [t EXCEPT !.Minutes = @ - 1, !.Seconds = @ + 60]
        ELSE t

\* Interval.Sub
Sub(x, y) == Add(x, Neg(y))

\* Interval.WithYears .. WithSeconds: self.<f> = val; return self
WithField(x, f, val) == [x EXCEPT ![f] = val]

\* A variant of AddField that books the amount on the seconds.
AddFieldSeconds(x, f, val) == [x EXCEPT !.Seconds = @ + val]

\* Interval.AddYears .. AddSeconds: self.<f> += val; return self
AddField(x, f, val) == [x EXCEPT ![f] = @ + val]

\* Interval.Date
DateOf(x) == <<x.Years, x.Months, x.Days>>

\* The conversion Interval(x) of a NullInterval: the same six fields.
IntervalOf(x) ==
    [Years |-> x.Years, Months |-> x.Months, Days |-> x.Days,
     Hours |-> x.Hours, Minutes |-> x.Minutes, Seconds |-> x.Seconds]

\* The conversion NullInterval(x) of an Interval: the same six fields.
NullIntervalOf(x) ==
    [Years |-> x.Years, Months |-> x.Months, Days |-> x.Days,
     Hours |-> x.Hours, Minutes |-> x.Minutes, Seconds |-> x.Seconds]

\* Interval.OnlyDate
OnlyDate(x) == DateInterval(x.Years, x.Months, x.Days)

\* A variant of OnlyTime that keeps the days.
OnlyTimeKeepDays(x) ==
    IntervalFrom(0, 0, x.Days, x.Hours, x.Minutes, x.Seconds)

\* Interval.OnlyTime
OnlyTime(x) == TimeInterval(x.Hours, x.Minutes, x.Seconds)

----------------------------------------------------------------------------
(* Conversion to and from time.Duration.  A duration is counted here in
   milliseconds, so that hours fit the integers of the model checker; the
   units keep the ratios of package time. *)

Millisecond == 1
Second == 1000 * Millisecond
Minute == 60 * Second
Hour == 60 * Minute

\* int(x / y) of Go, for y > 0: the quotient truncated toward zero.
TruncDiv(x, y) == IF x >= 0 THEN x \div y ELSE -((-x) \div y)

\* A variant of Duration that drops the date part silently.
DurationDropDate(x) ==
    [panicked |-> FALSE,
     n |-> x.Hours * Hour + x.Minutes * Minute + x.Seconds * Second]

\* Interval.Duration: panics when there is a date part.
Duration(x) ==
    IF HasDate(x) THEN [panicked |-> TRUE, n |-> 0]
    ELSE [panicked |-> FALSE,
          n |-> x.Hours * Hour + x.Minutes * Minute + x.Seconds * Second]

minSecs == 60
hourMins == 60

\* A variant of SetDuration that rounds toward minus infinity.
SetDurationFloor(val) ==
    LET hoursN == val \div Hour
        minutesN == (val \div Minute) - (hoursN * hourMins)
        secondsN == (val \div Second) - (minutesN * minSecs)
                       - (hoursN * hourMins * minSecs)
    IN  TimeInterval(hoursN, minutesN, secondsN)

\* Interval.SetDuration: the value the receiver is replaced with.
SetDuration(val) ==
    LET hoursN == TruncDiv(val, Hour)
        minutesN == TruncDiv(val, Minute) - (hoursN * hourMins)
        secondsN == TruncDiv(val, Second) - (minutesN * minSecs)
                       - (hoursN * hourMins * minSecs)
    IN  [Years |-> 0, Months |-> 0, Days |-> 0,
         Hours |-> hoursN, Minutes |-> minutesN, Seconds |-> secondsN]

\* A variant of DurationInterval that keeps the whole amount in Seconds.
DurationIntervalSeconds(val) == TimeInterval(0, 0, TruncDiv(val, Second))

\* func DurationInterval
DurationInterval(val) == SetDuration(val)

----------------------------------------------------------------------------
(* The methods of NullInterval, each as its body is written: the receiver   *)
(* and the argument converted with Interval(x), one method of Interval      *)
(* called, and an Interval result converted with NullInterval(x).           *)

\* NullInterval.SetDuration: the value the receiver is replaced with.
NullSetDuration(val) == NullIntervalOf(SetDuration(val))

\* NullInterval.Date
NullDate(x) == DateOf(IntervalOf(x))

\* NullInterval.OnlyDate
NullOnlyDate(x) == NullIntervalOf(OnlyDate(IntervalOf(x)))

\* NullInterval.OnlyTime
NullOnlyTime(x) == NullIntervalOf(OnlyTime(IntervalOf(x)))

\* NullInterval.HasDate
NullHasDate(x) == HasDate(IntervalOf(x))

\* NullInterval.HasTime
NullHasTime(x) == HasTime(IntervalOf(x))

\* NullInterval.Duration: panics when Interval.Duration does.
NullDuration(x) == Duration(IntervalOf(x))

\* NullInterval.WithYears .. NullInterval.WithSeconds, one case for each.
NullWithField(x, f, val) ==
    CASE f = "Years" -> NullIntervalOf(WithField(IntervalOf(x), "Years", val))
      [] f = "Months" -> NullIntervalOf(WithField(IntervalOf(x), "Months", val))
      [] f = "Days" -> NullIntervalOf(WithField(IntervalOf(x), "Days", val))
      [] f = "Hours" -> NullIntervalOf(WithField(IntervalOf(x), "Hours", val))
      [] f = "Minutes" ->
            NullIntervalOf(WithField(IntervalOf(x), "Minutes", val))
      [] f = "Seconds" ->
            NullIntervalOf(WithField(IntervalOf(x), "Seconds", val))

\* NullInterval.AddYears .. NullInterval.AddSeconds, one case for each.
NullAddField(x, f, val) ==
    CASE f = "Years" -> NullIntervalOf(AddField(IntervalOf(x), "Years", val))
      [] f = "Months" -> NullIntervalOf(AddField(IntervalOf(x), "Months", val))
      [] f = "Days" -> NullIntervalOf(AddField(IntervalOf(x), "Days", val))
      [] f = "Hours" -> NullIntervalOf(AddField(IntervalOf(x), "Hours", val))
      [] f = "Minutes" ->
            NullIntervalOf(AddField(IntervalOf(x), "Minutes", val))
      [] f = "Seconds" ->
            NullIntervalOf(AddField(IntervalOf(x), "Seconds", val))

\* NullInterval.Add
NullAdd(x, y) == NullIntervalOf(Add(IntervalOf(x), IntervalOf(y)))

\* A variant of NullInterval.Sub that calls Interval.Add.
NullSubAsAdd(x, y) == NullIntervalOf(Add(IntervalOf(x), IntervalOf(y)))

\* NullInterval.Sub
NullSub(x, y) == NullIntervalOf(Sub(IntervalOf(x), IntervalOf(y)))

\* NullInterval.Neg
NullNeg(x) == NullIntervalOf(Neg(IntervalOf(x)))

----------------------------------------------------------------------------
(* Encoding and decoding, for the receiver types "Interval" and             *)
(* "NullInterval".  A decoder returns [err, val, parsed]: the error, the    *)
(* receiver after the call, and whether Interval.parse was reached.  An     *)
(* encoder returns [kind, text]: nil, a string or a byte slice.             *)

Nil == [kind |-> "nil", text |-> <<>>]

GoString(t) == [kind |-> "string", text |-> t]

Bytes(t) == [kind |-> "bytes", text |-> t]

bytesNull == <<"n", "u", "l", "l">>

\* func isJsonEmpty
isJsonEmpty(val) == Len(val) = 0 \/ val = bytesNull

\* func isJsonStr
isJsonStr(val) == Len(val) >= 2 /\ val[1] = "\"" /\ val[Len(val)] = "\""

\* A variant of cutJsonStr that keeps the closing quote.
cutJsonStrOpen(val) == SubSeq(val, 2, Len(val))

\* func cutJsonStr
cutJsonStr(val) == SubSeq(val, 2, Len(val) - 1)

\* json.Marshal of a string without characters to escape.
jsonMarshal(t) == <<"\"">> \o t \o <<"\"">>

\* func errJsonString
errJsonString(t, typ) == [cause |-> "errJsonString", src |-> t, typ |-> typ]

\* func errScanType
errScanType(typ) == [cause |-> "errScanType", src |-> <<>>, typ |-> typ]

\* A value method called through a nil pointer: a run-time panic, which no
\* decoder recovers.
nilDereference == [cause |-> "nilDereference", src |-> <<>>, typ |-> ""]

\* A variant of IsNull that is IsZero for both types.
IsNullAsIsZero(typ, x) == IsZero(x)

\* IsNull: false for Interval, IsZero for NullInterval.
IsNull(typ, x) == typ = "NullInterval" /\ IsZero(x)

\* Get: the text of String(), or nil for a null NullInterval.
Get(typ, x) == IF IsNull(typ, x) THEN Nil ELSE GoString(String(x))

\* NullInterval.String
NullString(x) == IF IsNull("NullInterval", x) THEN <<>> ELSE String(x)

\* NullInterval.AppendTo on the byte slice g, nil or not: a null receiver
\* returns g itself, any other one what Interval.AppendTo returns.
NullAppendTo(x, g) ==
    IF IsNull("NullInterval", x) THEN g ELSE Bytes(AppendTo(x, g.text))

\* A variant of MarshalText that writes the zero value for a null one too.
MarshalTextNoNil(typ, x) == Bytes(AppendTo(x, <<>>))

\* MarshalText: nil for a null NullInterval, otherwise Interval.AppendTo(nil).
MarshalText(typ, x) == IF IsNull(typ, x) THEN Nil ELSE Bytes(AppendTo(x, <<>>))

\* MarshalJSON: bytesNull for a null NullInterval, otherwise json.Marshal of
\* Interval.Get().
MarshalJSON(typ, x) ==
    IF IsNull(typ, x) THEN Bytes(bytesNull)
    ELSE Bytes(jsonMarshal(Get("Interval", x).text))

\* Value
Value(typ, x) == Get(typ, x)

\* A variant of Parse where NullInterval has no case for the empty string.
ParseNoEmpty(typ, recv, s) ==
    [err |-> parse(recv, s).err, val |-> parse(recv, s).val, parsed |-> TRUE]

\* A variant of Parse where both types zero the receiver on the empty string.
ParseEmptyAsZero(typ, recv, s) ==
    IF Len(s) = 0
    THEN [err |-> NilErr, val |-> ZeroValue, parsed |-> FALSE]
    ELSE [err |-> parse(recv, s).err, val |-> parse(recv, s).val,
          parsed |-> TRUE]

\* Parse: NullInterval zeroes the receiver on the empty string; otherwise
\* both types go to Interval.parse.
Parse(typ, recv, s) ==
    IF typ = "NullInterval" /\ Len(s) = 0
    THEN [err |-> NilErr, val |-> ZeroValue, parsed |-> FALSE]
    ELSE [err |-> parse(recv, s).err, val |-> parse(recv, s).val,
          parsed |-> TRUE]

\* UnmarshalText: Parse of the bytes as a string; nil bytes are the empty
\* string.
UnmarshalText(typ, recv, t) == Parse(typ, recv, t)

\* UnmarshalJSON
UnmarshalJSON(typ, recv, t) ==
    IF typ = "NullInterval" /\ isJsonEmpty(t)
    THEN [err |-> NilErr, val |-> ZeroValue, parsed |-> FALSE]
    ELSE IF isJsonStr(t) THEN UnmarshalText(typ, recv, cutJsonStr(t))
    ELSE [err |-> errJsonString(t, typ), val |-> recv, parsed |-> FALSE]

\* func get, for the arguments that reach the default case of Scan: a
\* non-nil *Interval is a Getter whose Get() is its text; other arguments
\* are no Getter.
get(g) ==
    IF g.kind = "ptrInterval"
    THEN [ok |-> TRUE, val |-> [g EXCEPT !.kind = "string", !.text = String(g.iv)]]
    ELSE [ok |-> FALSE, val |-> g]

\* A variant of Assigned that copies the time fields only.
AssignedTimeOnly(val) ==
    [err |-> NilErr, val |-> OnlyTime(val), parsed |-> FALSE]

\* The outcome of a decoder that assigns val to the receiver.
Assigned(val) == [err |-> NilErr, val |-> val, parsed |-> FALSE]

\* Scan: the type switch of Interval.Scan and of NullInterval.Scan, which
\* has the further cases nil, *time.Duration and *Interval.
RECURSIVE Scan(_, _, _)
Scan(typ, recv, g) ==
    CASE g.kind = "nil" /\ typ = "NullInterval" -> Assigned(ZeroValue)
      [] g.kind = "string" -> Parse(typ, recv, g.text)
      [] g.kind \in {"bytes", "nilBytes"} -> UnmarshalText(typ, recv, g.text)
      [] g.kind = "duration" -> Assigned(SetDuration(g.dur))
      [] g.kind = "nilPtrDuration" /\ typ = "NullInterval" -> Assigned(ZeroValue)
      [] g.kind = "ptrDuration" /\ typ = "NullInterval" ->
            Assigned(SetDuration(g.dur))
      [] g.kind = "Interval" -> Assigned(g.iv)
      [] g.kind = "nilPtrInterval" /\ typ = "NullInterval" -> Assigned(ZeroValue)
      [] g.kind = "ptrInterval" /\ typ = "NullInterval" -> Assigned(g.iv)
      [] g.kind = "NullInterval" -> Assigned(g.iv)
      [] OTHER ->
            IF g.kind = "nilPtrInterval"
            THEN [err |-> nilDereference, val |-> recv, parsed |-> FALSE]
            ELSE IF get(g).ok THEN Scan(typ, recv, get(g).val)
            ELSE [err |-> errScanType(typ), val |-> recv, parsed |-> FALSE]

----------------------------------------------------------------------------
(* The state machine of a parse. *)

\* The result of a value operation: an Interval, a number (a duration or a
\* length), a text, a boolean, and whether the call panicked.
NoRes == [iv |-> ZeroValue, n |-> 0, text |-> <<>>, flag |-> FALSE,
          panicked |-> FALSE]

\* An argument of a decoding method: its dynamic type, and the text, the
\* duration or the Interval it holds.
NoArg == [kind |-> "none", text |-> <<>>, dur |-> 0, iv |-> ZeroValue]

\* A result of an encoding method: "nil", or a "string" or "bytes" with text.
NoRet == [kind |-> "none", text |-> <<>>]


Locals == [pc |-> pc, cur |-> cur, num |-> num, buf |-> buf, asg |-> asg,
           panic |-> panicVal]

Apply(m) ==
    /\ pc' = m.pc
    /\ cur' = m.cur
    /\ num' = m.num
    /\ buf' = m.buf
    /\ asg' = m.asg
    /\ panicVal' = m.panic
    /\ UNCHANGED <<self, old, v, mode, src, err, out, op, opVars, codecVars>>

\* No parse has been started.
ParseIdle ==
    /\ v = ZeroValue
    /\ mode = "new"
    /\ src = <<>>
    /\ cur = 0
    /\ num = 0
    /\ buf = ZeroValue
    /\ pc = "idle"
    /\ panicVal = "nil"
    /\ err = NilErr
    /\ asg = <<>>
    /\ out = <<>>

\* No value operation has been applied.
OpsIdle ==
    /\ lhs = ZeroValue
    /\ rhs = ZeroValue
    /\ dur = 0
    /\ res = NoRes

\* No encoding or decoding method has been called.
CodecIdle ==
    /\ arg = NoArg
    /\ ret = NoRet
    /\ parsed = FALSE

Init ==
    /\ self \in Receivers
    /\ old = self
    /\ op = "none"
    /\ recvTyp = "Interval"
    /\ ParseIdle
    /\ OpsIdle
    /\ CodecIdle

\* self.Parse(s) is called on a text of the caller.
CallParse ==
    /\ pc = "idle"
    /\ \E s \in Inputs :
        /\ src' = s
        /\ mode' = "text"
        /\ v' = v
    /\ pc' = "start"
    /\ UNCHANGED <<self, old, cur, num, buf, panicVal, err, asg, out, op, opVars, codecVars>>

\* self.Parse(iv.String()) is called on the text of a value.
CallParseString ==
    /\ pc = "idle"
    /\ \E iv \in Values :
        /\ v' = iv
        /\ src' = String(iv)
        /\ mode' = "value"
    /\ pc' = "start"
    /\ UNCHANGED <<self, old, cur, num, buf, panicVal, err, asg, out, op, opVars, codecVars>>

Start == pc = "start" /\ Apply(start(src, Locals))

Years == pc = "years" /\ Apply(years(src, Locals))

Months == pc = "months" /\ Apply(months(src, Locals))

Days == pc = "days" /\ Apply(days(src, Locals))

Time == pc = "time" /\ Apply(time(src, Locals))

Hours == pc = "hours" /\ Apply(hours(src, Locals))

Minutes == pc = "minutes" /\ Apply(minutes(src, Locals))

Seconds == pc = "seconds" /\ Apply(seconds(src, Locals))

Eof == pc = "eof" /\ Apply(eof(src, Locals))

\* done: *self = buf; return nil
Done ==
    /\ pc = "done"
    /\ self' = buf
    /\ err' = NilErr
    /\ pc' = "returned"
    /\ UNCHANGED <<old, v, mode, src, cur, num, buf, panicVal, asg, out, op, opVars, codecVars>>

\* The deferred rec(&err) and errParse(&err, src, `interval`) after a panic.
Recover ==
    /\ pc = "panic"
    /\ err' = errParse(panicVal, src, "interval")
    /\ panicVal' = "nil"
    /\ pc' = "returned"
    /\ UNCHANGED <<self, old, v, mode, src, cur, num, buf, asg, out, op, opVars, codecVars>>

\* The caller formats the parsed value: self.String().
CallString ==
    /\ pc = "returned"
    /\ err = NilErr
    /\ out' = String(self)
    /\ pc' = "formatted"
    /\ UNCHANGED <<self, old, v, mode, src, cur, num, buf, panicVal, err, asg, op, opVars, codecVars>>

\* ParseInterval(src): try(val.Parse(src)) on a fresh val; the error is
\* thrown as a panic, or val is the result.
Try ==
    /\ pc = "returned"
    /\ mode = "text"
    /\ old = ZeroValue
    /\ IF err # NilErr
       THEN pc' = "panicked" /\ panicVal' = err.cause
       ELSE pc' = "result" /\ panicVal' = panicVal
    /\ UNCHANGED <<self, old, v, mode, src, cur, num, buf, err, asg, out, op, opVars, codecVars>>

Next ==
    \/ CallParse
    \/ CallParseString
    \/ Start
    \/ Years
    \/ Months
    \/ Days
    \/ Time
    \/ Hours
    \/ Minutes
    \/ Seconds
    \/ Eof
    \/ Done
    \/ Recover
    \/ CallString
    \/ Try

Spec == Init /\ [][Next]_vars

TypeOK ==
    /\ pc \in {"idle", "start", "years", "months", "days", "time", "hours",
               "minutes", "seconds", "eof", "done", "panic", "returned",
               "formatted", "panicked", "result"}
    /\ cur \in 0..Len(src)
    /\ err.cause \in {"nil", "EOF", "errFormatMismatch", "errDigitEof"}

----------------------------------------------------------------------------
(* The state machine of the value operations: a receiver and an argument    *)
(* are drawn, one method is applied, and a second method may be chained on  *)
(* its result.                                                              *)

\* Values from the tests of the time part, next to the small ones.
OpValues ==
    Values \cup {TimeInterval(3, 5, 7), TimeInterval(0, 0, 45),
                 TimeInterval(12, 34, 56), TimeInterval(0, 0, 90),
                 TimeInterval(-1, -2, -3), TimeInterval(1, -30, 0)}

\* Arguments of Add and Sub.
Operands == SampleValues \cup {TimeInterval(0, 0, 30)}

MaxHours == 12

\* Durations of either sign, with and without a sub-second remainder.
Durations ==
    {sign * (h * Hour + m * Minute + sec * Second + f * Millisecond) :
        sign \in {-1, 1}, h \in {0, 1, MaxHours}, m \in {0, 1, 34, 59},
        sec \in {0, 1, 56, 59}, f \in {0, 999}}

\* Arguments of With<Field> and Add<Field>.
IntArgs == {-7, 60}

InitOps ==
    /\ \/ lhs \in OpValues /\ rhs \in Operands \cup {lhs} /\ dur = 0
       \/ lhs \in Receivers /\ rhs = ZeroValue /\ dur \in Durations
       \/ lhs \in OpValues /\ rhs = ZeroValue /\ dur \in IntArgs
    /\ res = NoRes
    /\ op = "none"
    /\ self = ZeroValue
    /\ old = self
    /\ recvTyp \in {"Interval", "NullInterval"}
    /\ ParseIdle
    /\ CodecIdle

\* A method was applied: op names it and res holds what it returned.
Returned(name, r) ==
    /\ op' = name
    /\ res' = r
    /\ UNCHANGED <<lhs, rhs, dur, self, old, err, parseVars, codecVars>>

\* The receiver is a NullInterval: the methods called are its own.
OfNull == recvTyp = "NullInterval"

\* Interval.AppendTo(nil) on lhs: the buffer is grown by bufLen, then
\* written.
CallAppendTo ==
    /\ op = "none"
    /\ recvTyp = "Interval"
    /\ Returned("AppendTo",
                [NoRes EXCEPT !.n = bufLen(lhs), !.text = AppendTo(lhs, <<>>)])

\* lhs.Add(rhs)
CallAdd ==
    /\ op = "none"
    /\ Returned("Add", [NoRes EXCEPT !.iv = IF OfNull THEN NullAdd(lhs, rhs)
                                             ELSE Add(lhs, rhs)])

\* lhs.Add(rhs).Sub(rhs)
ChainSub ==
    /\ op = "Add"
    /\ Returned("Add.Sub",
                [NoRes EXCEPT !.iv = IF OfNull THEN NullSub(res.iv, rhs)
                                     ELSE Sub(res.iv, rhs)])

\* lhs.Neg()
CallNeg ==
    /\ op = "none"
    /\ Returned("Neg", [NoRes EXCEPT !.iv = IF OfNull THEN NullNeg(lhs)
                                             ELSE Neg(lhs)])

\* lhs.Neg().Neg()
ChainNeg ==
    /\ op = "Neg"
    /\ Returned("Neg.Neg",
                [NoRes EXCEPT !.iv = IF OfNull THEN NullNeg(res.iv)
                                     ELSE Neg(res.iv)])

\* lhs.Sub(rhs)
CallSub ==
    /\ op = "none"
    /\ Returned("Sub", [NoRes EXCEPT !.iv = IF OfNull THEN NullSub(lhs, rhs)
                                             ELSE Sub(lhs, rhs)])

\* lhs.OnlyDate(), and HasTime() of the result
CallOnlyDate ==
    /\ op = "none"
    /\ LET r == IF OfNull THEN NullOnlyDate(lhs) ELSE OnlyDate(lhs)
       IN  Returned("OnlyDate",
                    [NoRes EXCEPT !.iv = r,
                                  !.flag = IF OfNull THEN NullHasTime(r)
                                           ELSE HasTime(r)])

\* lhs.OnlyTime(), and HasDate() of the result
CallOnlyTime ==
    /\ op = "none"
    /\ LET r == IF OfNull THEN NullOnlyTime(lhs) ELSE OnlyTime(lhs)
       IN  Returned("OnlyTime",
                    [NoRes EXCEPT !.iv = r,
                                  !.flag = IF OfNull THEN NullHasDate(r)
                                           ELSE HasDate(r)])

\* lhs.OnlyDate().Add(lhs.OnlyTime())
ChainAddOnlyTime ==
    /\ op = "OnlyDate"
    /\ Returned("OnlyDate.Add",
                [NoRes EXCEPT !.iv = IF OfNull
                                     THEN NullAdd(res.iv, NullOnlyTime(lhs))
                                     ELSE Add(res.iv, OnlyTime(lhs))])

\* lhs.HasDate()
CallHasDate ==
    /\ op = "none"
    /\ Returned("HasDate", [NoRes EXCEPT !.flag = IF OfNull THEN NullHasDate(lhs)
                                                 ELSE HasDate(lhs)])

\* lhs.HasTime()
CallHasTime ==
    /\ op = "none"
    /\ Returned("HasTime", [NoRes EXCEPT !.flag = IF OfNull THEN NullHasTime(lhs)
                                                 ELSE HasTime(lhs)])

\* lhs.Date(): res.text holds the three numbers returned.
CallDate ==
    /\ op = "none"
    /\ Returned("Date", [NoRes EXCEPT !.text = IF OfNull THEN NullDate(lhs)
                                              ELSE DateOf(lhs)])

\* lhs.With<f>(dur), for one of the six fields f, kept in res.text
CallWith ==
    /\ op = "none"
    /\ rhs = ZeroValue
    /\ \E f \in {Fields[i] : i \in 1..Len(Fields)} :
          Returned("With",
                   [NoRes EXCEPT !.iv = IF OfNull THEN NullWithField(lhs, f, dur)
                                        ELSE WithField(lhs, f, dur),
                                 !.text = <<f>>])

\* lhs.Add<f>(dur), for one of the six fields f, kept in res.text
CallAddField ==
    /\ op = "none"
    /\ rhs = ZeroValue
    /\ \E f \in {Fields[i] : i \in 1..Len(Fields)} :
          Returned("AddField",
                   [NoRes EXCEPT !.iv = IF OfNull THEN NullAddField(lhs, f, dur)
                                        ELSE AddField(lhs, f, dur),
                                 !.text = <<f>>])

\* lhs.Duration(), which returns or panics
CallDuration ==
    /\ op = "none"
    /\ LET r == IF OfNull THEN NullDuration(lhs) ELSE Duration(lhs)
       IN  Returned("Duration", [NoRes EXCEPT !.n = r.n,
                                              !.panicked = r.panicked])

\* DurationInterval(lhs.Duration()), when Duration() returned
ChainDurationInterval ==
    /\ op = "Duration"
    /\ recvTyp = "Interval"
    /\ ~res.panicked
    /\ Returned("Duration.DurationInterval",
                [NoRes EXCEPT !.iv = DurationInterval(res.n), !.n = res.n])

\* lhs.SetDuration(dur): res.iv is the receiver after the call.
CallSetDuration ==
    /\ op = "none"
    /\ Returned("SetDuration",
                [NoRes EXCEPT !.iv = IF OfNull THEN NullSetDuration(dur)
                                     ELSE SetDuration(dur)])

\* DurationInterval(dur)
CallDurationInterval ==
    /\ op = "none"
    /\ recvTyp = "Interval"
    /\ Returned("DurationInterval", [NoRes EXCEPT !.iv = DurationInterval(dur)])

\* DurationInterval(dur).Duration()
ChainDuration ==
    /\ op = "DurationInterval"
    /\ Returned("DurationInterval.Duration",
                [NoRes EXCEPT !.iv = res.iv,
                              !.n = Duration(res.iv).n,
                              !.panicked = Duration(res.iv).panicked])

NextOps ==
    \/ CallAppendTo
    \/ CallAdd
    \/ ChainSub
    \/ CallNeg
    \/ ChainNeg
    \/ CallSub
    \/ CallOnlyDate
    \/ CallOnlyTime
    \/ ChainAddOnlyTime
    \/ CallHasDate
    \/ CallHasTime
    \/ CallDate
    \/ CallWith
    \/ CallAddField
    \/ CallDuration
    \/ ChainDurationInterval
    \/ CallSetDuration
    \/ CallDurationInterval
    \/ ChainDuration

SpecOps == InitOps /\ [][NextOps]_vars

----------------------------------------------------------------------------
(* The state machine of the encoding and decoding methods: a receiver of    *)
(* one of the two types and an argument are drawn, and one method is        *)
(* called.                                                                  *)

MaxTextLen == 2

\* Texts to decode: the inputs of the tests, the texts of the sample values
\* and every short text.
CodecTexts ==
    InvalidExamples \cup ValidExamples \cup GarbageExamples \cup OrderExamples
        \cup {String(x) : x \in SampleValues} \cup Strings(Alphabet, MaxTextLen)

\* Byte slices that are JSON documents: strings, null, and others.
JsonTexts ==
    {jsonMarshal(t) : t \in CodecTexts}
        \cup {bytesNull, <<"1">>, <<"\"">>, <<"\"", "P">>}

Arg(kind, t, dd, x) == [kind |-> kind, text |-> t, dur |-> dd, iv |-> x]

\* The arguments of the decoding methods, by dynamic type.
Args ==
    {Arg("string", t, 0, ZeroValue) : t \in CodecTexts}
        \cup {Arg("bytes", t, 0, ZeroValue) : t \in CodecTexts \cup JsonTexts}
        \cup {Arg(k, <<>>, 0, ZeroValue) :
                k \in {"nil", "nilBytes", "nilPtrDuration", "nilPtrInterval",
                       "int"}}
        \cup {Arg(k, <<>>, dd, ZeroValue) :
                k \in {"duration", "ptrDuration"},
                dd \in {0, Hour + Minute + Second, 0 - 1999 * Millisecond}}
        \cup {Arg(k, <<>>, 0, x) :
                k \in {"Interval", "ptrInterval", "NullInterval"},
                x \in Receivers}

InitCodec ==
    /\ recvTyp \in {"Interval", "NullInterval"}
    /\ \/ self \in Values /\ arg = NoArg
       \/ self \in Receivers /\ arg \in Args
    /\ old = self
    /\ ret = NoRet
    /\ parsed = FALSE
    /\ op = "none"
    /\ ParseIdle
    /\ OpsIdle

\* An encoding method returned r.
Encoded(name, r) ==
    /\ op' = name
    /\ ret' = r
    /\ UNCHANGED <<self, old, err, recvTyp, arg, parsed, parseVars, opVars>>

\* A decoding method returned r.err and left r.val in the receiver, or it
\* panicked, which res.panicked records with the panic value in err: Set
\* throws every error of Scan, and no decoder recovers a nil dereference.
Decoded(name, r) ==
    /\ op' = name
    /\ self' = r.val
    /\ err' = r.err
    /\ parsed' = r.parsed
    /\ res' = [res EXCEPT !.panicked = \/ name = "Set" /\ r.err # NilErr
                                       \/ r.err = nilDereference]
    /\ UNCHANGED <<old, recvTyp, arg, ret, parseVars, lhs, rhs, dur>>

\* self.String()
EncString ==
    /\ op = "none"
    /\ Encoded("String", GoString(IF recvTyp = "NullInterval"
                                  THEN NullString(self) ELSE String(self)))

\* self.AppendTo(buf), with the bytes of the argument as buf, or nil
EncAppendTo ==
    /\ op = "none"
    /\ LET dst == IF arg.kind = "bytes" THEN Bytes(arg.text) ELSE Nil
       IN  Encoded("AppendTo", IF recvTyp = "NullInterval"
                               THEN NullAppendTo(self, dst)
                               ELSE Bytes(AppendTo(self, dst.text)))

\* self.Get()
EncGet == op = "none" /\ Encoded("Get", Get(recvTyp, self))

\* self.Value()
EncValue == op = "none" /\ Encoded("Value", Value(recvTyp, self))

\* self.MarshalText()
EncMarshalText ==
    op = "none" /\ Encoded("MarshalText", MarshalText(recvTyp, self))

\* self.MarshalJSON()
EncMarshalJSON ==
    op = "none" /\ Encoded("MarshalJSON", MarshalJSON(recvTyp, self))

\* self.IsNull(): res.flag is what it returned.
EncIsNull ==
    /\ op = "none"
    /\ op' = "IsNull"
    /\ res' = [NoRes EXCEPT !.flag = IsNull(recvTyp, self)]
    /\ UNCHANGED <<self, old, err, lhs, rhs, dur, parseVars, codecVars>>

\* self.Parse(arg), for a string
DecParse ==
    /\ op = "none"
    /\ arg.kind = "string"
    /\ Decoded("Parse", Parse(recvTyp, self, arg.text))

\* self.UnmarshalText(arg), for a byte slice
DecUnmarshalText ==
    /\ op = "none"
    /\ arg.kind \in {"bytes", "nilBytes"}
    /\ Decoded("UnmarshalText", UnmarshalText(recvTyp, self, arg.text))

\* self.UnmarshalJSON(arg), for a byte slice
DecUnmarshalJSON ==
    /\ op = "none"
    /\ arg.kind \in {"bytes", "nilBytes"}
    /\ Decoded("UnmarshalJSON", UnmarshalJSON(recvTyp, self, arg.text))

\* self.Scan(arg), for an argument of any type
DecScan ==
    /\ op = "none"
    /\ arg.kind # "none"
    /\ Decoded("Scan", Scan(recvTyp, self, arg))

\* self.Set(arg): try(self.Scan(arg)); an error of Scan is thrown as a
\* panic.
DecSet ==
    /\ op = "none"
    /\ arg.kind # "none"
    /\ Decoded("Set", Scan(recvTyp, self, arg))

\* self.Zero(), on a receiver that is not a nil pointer: *self = Interval{}
DecZero ==
    /\ op = "none"
    /\ Decoded("Zero", [err |-> NilErr, val |-> ZeroValue, parsed |-> FALSE])

\* A decoding method is called with what the encoding method returned, on
\* a receiver that holds prev; lhs keeps prev, old the value encoded.
Chained(name, prev, g, r) ==
    /\ op' = name
    /\ lhs' = prev
    /\ arg' = g
    /\ self' = r.val
    /\ err' = r.err
    /\ parsed' = r.parsed
    /\ UNCHANGED <<old, recvTyp, ret, rhs, dur, res, parseVars>>

\* dec.UnmarshalText(self.MarshalText())
ChainUnmarshalText ==
    /\ op = "MarshalText"
    /\ \E prev \in Receivers :
          Chained("MarshalText.UnmarshalText", prev,
                  Arg(IF ret.kind = "nil" THEN "nilBytes" ELSE "bytes",
                      ret.text, 0, ZeroValue),
                  UnmarshalText(recvTyp, prev, ret.text))

\* dec.UnmarshalJSON(self.MarshalJSON())
ChainUnmarshalJSON ==
    /\ op = "MarshalJSON"
    /\ \E prev \in Receivers :
          Chained("MarshalJSON.UnmarshalJSON", prev,
                  Arg("bytes", ret.text, 0, ZeroValue),
                  UnmarshalJSON(recvTyp, prev, ret.text))

\* dec.Scan(self.Value())
ChainScan ==
    /\ op = "Value"
    /\ \E prev \in Receivers :
          LET g == Arg(ret.kind, ret.text, 0, ZeroValue)
          IN  Chained("Value.Scan", prev, g, Scan(recvTyp, prev, g))

NextCodec ==
    \/ EncString
    \/ EncAppendTo
    \/ EncGet
    \/ EncValue
    \/ EncMarshalText
    \/ EncMarshalJSON
    \/ EncIsNull
    \/ DecParse
    \/ DecUnmarshalText
    \/ DecUnmarshalJSON
    \/ DecScan
    \/ DecSet
    \/ DecZero
    \/ ChainUnmarshalText
    \/ ChainUnmarshalJSON
    \/ ChainScan

SpecCodec == InitCodec /\ [][NextCodec]_vars

----------------------------------------------------------------------------
(* Vocabulary of the properties: a reading of duration texts that does not  *)
(* go through the parser or the formatter.                                  *)

UnitLetters == {"Y", "M", "D", "H", "S", "T"}

IsUnitLetter(c) == c \in UnitLetters

\* The unit letters and 'T' of a text, in order.
Letters(s) == SelectSeq(s, IsUnitLetter)

Rank(order, c) == IF \E i \in 1..Len(order) : order[i] = c
                  THEN CHOOSE i \in 1..Len(order) : order[i] = c ELSE 0

\* ls keeps the order of `order`, each letter at most once.
SubOf(ls, order) ==
    /\ \A i \in 1..Len(ls) : Rank(order, ls[i]) > 0
    /\ \A i \in 1..(Len(ls) - 1) : Rank(order, ls[i]) < Rank(order, ls[i + 1])

\* The letters come in the order Y, M, D, T, H, M, S, each at most once.
OrderOK(ls) ==
    LET tpos == {i \in 1..Len(ls) : ls[i] = "T"}
    IN  IF tpos = {} THEN SubOf(ls, <<"Y", "M", "D">>)
        ELSE LET t == CHOOSE i \in tpos : \A j \in tpos : i <= j
             IN  /\ SubOf(SubSeq(ls, 1, t - 1), <<"Y", "M", "D">>)
                 /\ SubOf(SubSeq(ls, t + 1, Len(ls)), <<"H", "M", "S">>)

\* The text cut after each unit letter: [n, u] is the text n before the
\* letter u; a rest without a letter is a last piece with u = "".
RECURSIVE Tokens(_)
Tokens(s) ==
    IF s = <<>> THEN <<>>
    ELSE LET ks == {i \in 1..Len(s) : s[i] \in UnitLetters}
         IN  IF ks = {} THEN << [n |-> s, u |-> ""] >>
             ELSE LET k == CHOOSE i \in ks : \A j \in ks : i <= j
                  IN  << [n |-> SubSeq(s, 1, k - 1), u |-> s[k]] >>
                          \o Tokens(SubSeq(s, k + 1, Len(s)))

\* A non-zero integer written without leading zeros and without "-0".
CanonNumeral(t) ==
    LET d == IF t # <<>> /\ t[1] = "-" THEN SubSeq(t, 2, Len(t)) ELSE t
    IN  /\ d # <<>>
        /\ \A i \in 1..Len(d) : d[i] \in charsetDigitDec
        /\ d[1] # "0"

\* A canonical duration text.
IsCanonical(s) ==
    \/ s = <<"P", "T", "0", "S">>
    \/ /\ s # <<>>
       /\ s[1] = "P"
       /\ LET tok == Tokens(Tail(s))
          IN  /\ tok # <<>>
              /\ tok[Len(tok)].u # "T"
              /\ OrderOK([i \in 1..Len(tok) |-> tok[i].u])
              /\ \A i \in 1..Len(tok) :
                    IF tok[i].u = "T" THEN tok[i].n = <<>>
                    ELSE tok[i].u # "" /\ CanonNumeral(tok[i].n)

NonZeroPart(e) == e.val # 0

\* The pieces a formatted value must consist of.
ExpectedParts(iv) ==
    LET date  == SelectSeq(<< [val |-> iv.Years, u |-> "Y"],
                              [val |-> iv.Months, u |-> "M"],
                              [val |-> iv.Days, u |-> "D"] >>, NonZeroPart)
        clock == SelectSeq(<< [val |-> iv.Hours, u |-> "H"],
                              [val |-> iv.Minutes, u |-> "M"],
                              [val |-> iv.Seconds, u |-> "S"] >>, NonZeroPart)
    IN  IF clock = <<>> THEN date ELSE (date \o << [val |-> 0, u |-> "T"] >>) \o clock

FieldRank(f) == CHOOSE i \in 1..6 : Fields[i] = f

\* The text s has a reason of the rejection set to be refused.
InRejectionSet(s) ==
    \/ s = <<>>
    \/ s[1] # "P"
    \/ \E i \in 1..Len(s) :
          \/ /\ s[i] \in charsetDigitDec
             /\ (i = Len(s) \/ s[i + 1] \notin (charsetDigitDec \cup {"Y", "M", "D", "H", "S"}))
          \/ /\ s[i] = "-"
             /\ (i = Len(s) \/ s[i + 1] \notin charsetDigitDec)
          \/ s[i] = "+"

\* text is the format of iv that the formatter is specified to produce.
IsFormatOf(iv, text) ==
    IF iv = ZeroValue THEN text = <<"P", "T", "0", "S">>
    ELSE /\ text # <<>>
         /\ text[1] = "P"
         /\ LET tok == Tokens(Tail(text))
                exp == ExpectedParts(iv)
            IN  /\ Len(tok) = Len(exp)
                /\ \A i \in 1..Len(tok) :
                      /\ tok[i].u = exp[i].u
                      /\ IF exp[i].u = "T" THEN tok[i].n = <<>>
                         ELSE CanonNumeral(tok[i].n) /\ Atoi(tok[i].n) = exp[i].val

\* The parser is about to read a signed integer at cur.
ExpectsInt ==
    \/ pc \in {"years", "months", "days"} /\ cur < Len(src) /\ At(src, cur) # "T"
    \/ pc \in {"hours", "minutes", "seconds"} /\ cur < Len(src)

\* After an optional '-', the input ends or the next character is no digit.
NoDigit ==
    LET c1 == IF At(src, cur) = "-" THEN cur + 1 ELSE cur
    IN  ~(c1 < Len(src) /\ At(src, c1) \in charsetDigitDec)

\* The position at which a failed parse gave up.
FailPos ==
    IF err.cause = "errDigitEof" /\ cur < Len(src) /\ At(src, cur) = "-"
    THEN cur + 1 ELSE cur


----------------------------------------------------------------------------
(* Properties. *)

\* C1: identity round trip: for every Interval v, Parse(v.String()) returns
\* no error and leaves the receiver field-wise equal to v.
IdentityRoundTrip ==
    mode = "value" =>
        /\ pc # "panic"
        /\ pc \in {"returned", "formatted"} => (err = NilErr /\ self = v)

IdentityRoundTripWitness ==
    /\ mode = "value"
    /\ pc = "returned"
    /\ v = IntervalFrom(-19, 0, 100, 0, -120, 7)
    /\ old # v
    /\ self = v

\* C2: canonical round trip: a canonical duration text parses, and the parsed
\* value formats back to the same text.
CanonicalRoundTrip ==
    (mode = "text" /\ IsCanonical(src)) =>
        /\ pc # "panic"
        /\ pc = "returned" => err = NilErr
        /\ pc = "formatted" => out = src

CanonicalRoundTripWitness ==
    /\ mode = "text"
    /\ pc = "formatted"
    /\ src = <<"P", "-", "1", "9", "Y", "1", "M", "T", "1", "H", "-", "1", "9", "S">>
    /\ IsCanonical(src)
    /\ out = src

\* C3 as stated: Parse("P") returns an error.
BarePRejected ==
    (mode = "text" /\ src = <<"P">> /\ pc = "returned") => err # NilErr

\* C3 amended: a bare "P" is accepted: Parse("P") returns nil and sets the
\* receiver to the zero value, whatever it held before.
BarePAccepted ==
    (mode = "text" /\ src = <<"P">>) =>
        /\ pc # "panic"
        /\ pc = "returned" => (err = NilErr /\ self = ZeroValue)

BarePAcceptedWitness ==
    /\ mode = "text"
    /\ src = <<"P">>
    /\ pc = "returned"
    /\ old # ZeroValue
    /\ self = ZeroValue
    /\ err = NilErr

\* C4: the parser agrees with the regexp reInterval: Parse succeeds exactly
\* when the regexp matches, and then every field is the decimal value of its
\* capture group (0 for an absent group).
RegexpEquivalent ==
    (mode = "text" /\ pc = "returned") =>
        /\ err = NilErr <=> reInterval(src) # {}
        /\ err = NilErr => \A c \in reInterval(src) : self = reValue(c)

RegexpEquivalentWitness ==
    /\ mode = "text"
    /\ pc = "returned"
    /\ src = <<"P", "1", "M", "T", "-", "0", "1", "9", "M">>
    /\ reInterval(src) # {}
    /\ self = IntervalFrom(0, 1, 0, 0, -19, 0)

\* C5: rejection set: Parse returns an error for every input that is empty,
\* does not begin with 'P', has an integer not followed by a unit letter, has
\* a '-' not followed by a digit, or has a '+'.
RejectionSet ==
    (mode = "text" /\ pc = "returned" /\ InRejectionSet(src)) =>
        err # NilErr

RejectionSetWitness ==
    /\ mode = "text"
    /\ pc = "returned"
    /\ src = <<"P", "1", "Y", "T", "-", "1">>
    /\ InRejectionSet(src)
    /\ err.cause = "EOF"

\* C6: the units are accepted in the strict order Y, M, D, T, H, M, S, each at
\* most once: the fields are assigned in strictly increasing order (so each
\* at most once), and an input whose unit letters repeat or come out of order
\* makes Parse return an error.
UnitOrder ==
    /\ \A i \in 1..(Len(asg) - 1) : FieldRank(asg[i]) < FieldRank(asg[i + 1])
    /\ (mode = "text" /\ pc = "returned" /\ ~OrderOK(Letters(src))) => err # NilErr

UnitOrderWitness ==
    /\ mode = "text"
    /\ pc = "returned"
    /\ src = <<"P", "1", "D", "T", "1", "H", "1", "D">>
    /\ asg = <<"Days", "Hours">>
    /\ err # NilErr

\* C7: a trailing 'T' changes nothing: when Parse accepts a text without 'T',
\* it accepts the text followed by 'T' and yields the same value.
TrailingT ==
    (mode = "text" /\ pc = "returned" /\ err = NilErr
        /\ \A i \in 1..Len(src) : src[i] # "T") =>
        parse(old, Append(src, "T")) = [err |-> NilErr, val |-> self]

TrailingTWitness ==
    /\ mode = "text"
    /\ pc = "returned"
    /\ err = NilErr
    /\ src = <<"P", "1", "Y", "-", "1", "M", "1", "9", "D">>
    /\ self = DateInterval(1, -1, 19)
    /\ parse(old, Append(src, "T")).val = self

\* C8 as stated: whenever Parse fails at a character that is present in the
\* input (a wrong unit letter, a stray character where an integer or a unit
\* is expected, trailing garbage), the error is the format-mismatch error.
StrayCharIsFormatMismatch ==
    (mode = "text" /\ pc = "returned" /\ err # NilErr /\ FailPos < Len(src)) =>
        err.cause = "errFormatMismatch"

\* C9: a digit is mandatory in every integer: when the parser expects a
\* signed integer and, after an optional '-', the input ends or the next
\* character is no digit, the parse panics with errDigitEof, and Parse
\* returns it as an error that wraps io.EOF and is not the format mismatch.
DigitMandatory ==
    [][/\ (ExpectsInt /\ NoDigit) => (pc' = "panic" /\ panicVal' = "errDigitEof")
       /\ (pc = "panic" /\ panicVal = "errDigitEof") =>
            /\ pc' = "returned"
            /\ err'.cause = "errDigitEof"
            /\ errorsIs(err', "EOF")
            /\ ~errorsIs(err', "errFormatMismatch")]_vars

DigitMandatoryWitness ==
    /\ mode = "text"
    /\ pc = "returned"
    /\ src = <<"P", "-", "Y">>
    /\ err.cause = "errDigitEof"
    /\ errorsIs(err, "EOF")

\* C10: formatter result: String() is "PT0S" for the zero value; otherwise
\* 'P', then <value><letter> for exactly the non-zero date fields in order,
\* then 'T' and the non-zero time fields if and only if there is one; values
\* are signed decimals without padding.
FormatterResult ==
    /\ mode = "value" => IsFormatOf(v, src)
    /\ pc = "formatted" => IsFormatOf(self, out)

FormatterResultWitness ==
    /\ mode = "value"
    /\ v = IntervalFrom(-19, 0, 100, 0, -120, 7)
    /\ src = <<"P", "-", "1", "9", "Y", "1", "0", "0", "D", "T",
               "-", "1", "2", "0", "M", "7", "S">>
    /\ pc = "start"

FieldNames == {Fields[i] : i \in 1..Len(Fields)}

\* C11: the pre-computed length is exact: for every Interval, with negative
\* or multi-digit fields too, bufLen equals the number of bytes that
\* AppendTo writes, the bytes of String().
BufLenExact ==
    op = "AppendTo" => /\ res.text = String(lhs)
                       /\ res.n = Len(res.text)

\* C12: Add is field-wise with no carrying: every field of lhs.Add(rhs) is
\* the sum of that field of lhs and of rhs, and the call changes neither
\* lhs nor rhs.
AddFieldWise ==
    [][op' = "Add" =>
          /\ lhs' = lhs
          /\ rhs' = rhs
          /\ \A f \in FieldNames : res'.iv[f] = lhs[f] + rhs[f]]_vars

AddFieldWiseWitness ==
    /\ op = "Add"
    /\ lhs = TimeInterval(0, 0, 45)
    /\ rhs = TimeInterval(0, 0, 30)
    /\ res.iv = TimeInterval(0, 0, 75)

\* C13: Neg flips the sign of each of the six fields, and Neg().Neg() is the
\* value it started from.
NegInvolution ==
    /\ op = "Neg" => \A f \in FieldNames : res.iv[f] = 0 - lhs[f]
    /\ op = "Neg.Neg" => res.iv = lhs

NegInvolutionWitness ==
    /\ op = "Neg.Neg"
    /\ lhs = IntervalFrom(-19, 0, 100, 0, -120, 7)
    /\ res.iv = lhs

\* C14: Sub is Add of the negation: lhs.Sub(rhs) equals lhs.Add(rhs.Neg()),
\* every field is the difference of the fields with no borrowing, a value
\* minus itself is the zero value, and lhs.Add(rhs).Sub(rhs) is lhs.
SubIsAddNeg ==
    /\ op = "Sub" =>
          /\ res.iv = Add(lhs, Neg(rhs))
          /\ \A f \in FieldNames : res.iv[f] = lhs[f] - rhs[f]
          /\ rhs = lhs => res.iv = ZeroValue
    /\ op = "Add.Sub" => res.iv = lhs

SubIsAddNegWitness ==
    /\ op = "Sub"
    /\ lhs = IntervalFrom(-19, 0, 100, 0, -120, 7)
    /\ rhs = lhs
    /\ res.iv = ZeroValue

\* C15: the projections partition the fields: OnlyDate keeps Years, Months
\* and Days and has no time part, OnlyTime keeps Hours, Minutes and Seconds
\* and has no date part, and OnlyDate().Add(OnlyTime()) is the value.
ProjectionPartition ==
    /\ op = "OnlyDate" =>
          /\ \A f \in {"Years", "Months", "Days"} : res.iv[f] = lhs[f]
          /\ res.flag = FALSE
          /\ \A f \in {"Hours", "Minutes", "Seconds"} : res.iv[f] = 0
    /\ op = "OnlyTime" =>
          /\ \A f \in {"Hours", "Minutes", "Seconds"} : res.iv[f] = lhs[f]
          /\ res.flag = FALSE
          /\ \A f \in {"Years", "Months", "Days"} : res.iv[f] = 0
    /\ op = "OnlyDate.Add" => res.iv = lhs

ProjectionPartitionWitness ==
    /\ op = "OnlyDate.Add"
    /\ lhs = IntervalFrom(1, 2, 3, 4, 5, 6)
    /\ res.iv = lhs

\* C16: Duration() panics exactly when Years, Months or Days is not zero;
\* otherwise it returns Hours*1h + Minutes*1m + Seconds*1s.
DurationPanicsIffDate ==
    op = "Duration" =>
        /\ res.panicked <=> (lhs.Years # 0 \/ lhs.Months # 0 \/ lhs.Days # 0)
        /\ ~res.panicked =>
              res.n = (lhs.Hours * 3600 + lhs.Minutes * 60 + lhs.Seconds) * Second

DurationPanicsIffDateWitness ==
    /\ op = "Duration"
    /\ lhs = TimeInterval(3, 5, 7)
    /\ ~res.panicked
    /\ res.n = (3 * 3600 + 5 * 60 + 7) * Second

\* C17: SetDuration(dur) and DurationInterval(dur) give Years = Months =
\* Days = 0, Hours = dur/1h truncated toward zero, then the remaining whole
\* minutes and the remaining whole seconds, dropping what is left of a
\* second; so |Minutes| < 60, |Seconds| < 60 and no field has the sign
\* opposite to dur.
SetDurationTruncates ==
    op \in {"SetDuration", "DurationInterval"} =>
        LET r == res.iv
            total == r.Hours * 3600 + r.Minutes * 60 + r.Seconds
        IN  /\ r.Years = 0 /\ r.Months = 0 /\ r.Days = 0
            /\ IF dur >= 0
               THEN /\ r.Hours * Hour <= dur /\ dur < (r.Hours + 1) * Hour
                    /\ total * Second <= dur /\ dur < (total + 1) * Second
                    /\ r.Hours >= 0 /\ r.Minutes >= 0 /\ r.Seconds >= 0
               ELSE /\ (r.Hours - 1) * Hour < dur /\ dur <= r.Hours * Hour
                    /\ (total - 1) * Second < dur /\ dur <= total * Second
                    /\ r.Hours <= 0 /\ r.Minutes <= 0 /\ r.Seconds <= 0
            /\ -60 < r.Minutes /\ r.Minutes < 60
            /\ -60 < r.Seconds /\ r.Seconds < 60

SetDurationTruncatesWitness ==
    /\ op = "SetDuration"
    /\ lhs = IntervalFrom(9, 8, 7, 6, 5, 4)
    /\ dur = 0 - (Hour + Minute + Second + 999 * Millisecond)
    /\ res.iv = TimeInterval(-1, -1, -1)

\* The call decoded an input with no content: the empty string, nil or
\* empty bytes, and for Scan also nil.
EmptyText ==
    \/ op \in {"Parse", "UnmarshalText"} /\ Len(arg.text) = 0
    \/ op = "Scan" /\ arg.kind \in {"string", "bytes", "nilBytes"}
                   /\ Len(arg.text) = 0
    \/ op = "Scan" /\ arg.kind = "nil"

\* The call decoded a text that is not empty.
NonEmptyText ==
    /\ Len(arg.text) > 0
    /\ \/ op \in {"Parse", "UnmarshalText"}
       \/ op = "Scan" /\ arg.kind \in {"string", "bytes"}

PT0S == <<"P", "T", "0", "S">>

\* C18: on a NullInterval holding any value, Parse(""), UnmarshalText of
\* nil or empty bytes, UnmarshalJSON of null or of nothing, Scan(nil),
\* Scan("") and Scan of empty bytes succeed without reaching the grammar
\* parser and leave the all-zero value; every text that is not empty gives
\* the result and the error of Interval.Parse.
NullDecodesEmpty ==
    recvTyp = "NullInterval" =>
        /\ (EmptyText \/ (op = "UnmarshalJSON" /\ arg.text \in {<<>>, bytesNull}))
              => (err = NilErr /\ self = ZeroValue /\ ~parsed)
        /\ NonEmptyText => /\ err = parse(old, arg.text).err
                           /\ self = parse(old, arg.text).val

NullDecodesEmptyWitness ==
    /\ recvTyp = "NullInterval"
    /\ op = "Scan"
    /\ arg.kind = "bytes"
    /\ arg.text = <<>>
    /\ old = IntervalFrom(9, 8, 7, 6, 5, 4)
    /\ self = ZeroValue
    /\ err = NilErr

\* C19: a NullInterval with all fields 0 has String() "", MarshalText nil,
\* MarshalJSON null, Value() and Get() nil, and AppendTo(buf) gives buf;
\* any other NullInterval gives what the Interval with the same fields
\* gives.
NullEncoding ==
    (recvTyp = "NullInterval" /\ op # "none" /\ ret # NoRet) =>
        LET text == String(self)
            b == IF arg.kind = "bytes" THEN arg.text ELSE <<>>
        IN  IF \A f \in FieldNames : self[f] = 0
            THEN /\ op = "String" => ret = [kind |-> "string", text |-> <<>>]
                 /\ op = "MarshalText" => ret.kind = "nil"
                 /\ op = "MarshalJSON" =>
                        ret = [kind |-> "bytes", text |-> <<"n", "u", "l", "l">>]
                 /\ op \in {"Value", "Get"} => ret.kind = "nil"
                 /\ op = "AppendTo" =>
                        ret = [kind |-> IF arg.kind = "bytes"
                                        THEN "bytes" ELSE "nil",
                               text |-> b]
            ELSE /\ op = "String" => ret = [kind |-> "string", text |-> text]
                 /\ op = "MarshalText" => ret = [kind |-> "bytes", text |-> text]
                 /\ op = "MarshalJSON" =>
                        ret = [kind |-> "bytes",
                               text |-> <<"\"">> \o text \o <<"\"">>]
                 /\ op \in {"Value", "Get"} =>
                        ret = [kind |-> "string", text |-> text]
                 /\ op = "AppendTo" =>
                        ret = [kind |-> "bytes", text |-> b \o text]

NullEncodingWitness ==
    /\ recvTyp = "NullInterval"
    /\ op = "MarshalJSON"
    /\ self = ZeroValue
    /\ ret.text = bytesNull

\* C20: on an Interval, Parse(""), UnmarshalText of nil or empty bytes,
\* UnmarshalJSON(null), Scan(nil), Scan("") and Scan of empty bytes return
\* an error, and the all-zero value encodes as "PT0S" in String,
\* MarshalText and Value and as the JSON string "PT0S" in MarshalJSON.
IntervalRejectsEmpty ==
    recvTyp = "Interval" =>
        /\ (EmptyText \/ (op = "UnmarshalJSON" /\ arg.text = bytesNull))
              => err # NilErr
        /\ (self = ZeroValue /\ ret # NoRet) =>
              /\ op = "String" => ret = [kind |-> "string", text |-> PT0S]
              /\ op = "MarshalText" => ret = [kind |-> "bytes", text |-> PT0S]
              /\ op = "Value" => ret = [kind |-> "string", text |-> PT0S]
              /\ op = "MarshalJSON" =>
                    ret = [kind |-> "bytes",
                           text |-> <<"\"", "P", "T", "0", "S", "\"">>]

IntervalRejectsEmptyWitness ==
    /\ recvTyp = "Interval"
    /\ op = "UnmarshalJSON"
    /\ arg.text = bytesNull
    /\ old = IntervalFrom(9, 8, 7, 6, 5, 4)
    /\ err.cause = "errJsonString"

\* C21, as stated: for every value of either type, IsNull() returns what
\* IsZero() returns, true exactly when all six fields are 0.
NullCheckIsZeroCheck ==
    op = "IsNull" => (res.flag <=> \A f \in FieldNames : self[f] = 0)

\* C21, amended: NullInterval.IsNull() is true exactly when all six fields
\* are 0, as IsZero() is; Interval.IsNull() is false for every value, the
\* zero value too.
NullCheckByType ==
    op = "IsNull" =>
        /\ recvTyp = "NullInterval" =>
              (res.flag <=> \A f \in FieldNames : self[f] = 0)
        /\ recvTyp = "Interval" => res.flag = FALSE

NullCheckByTypeWitness ==
    /\ op = "IsNull"
    /\ recvTyp = "Interval"
    /\ self = ZeroValue
    /\ res.flag = FALSE

\* C22: encoding is reversible for both types: UnmarshalText of what
\* MarshalText returned, UnmarshalJSON of what MarshalJSON returned and
\* Scan of what Value returned, on a receiver holding any value, succeed
\* and leave the receiver equal to the value encoded, the zero value too.
EncodingReversible ==
    op \in {"MarshalText.UnmarshalText", "MarshalJSON.UnmarshalJSON",
            "Value.Scan"} =>
        /\ err = NilErr
        /\ \A f \in FieldNames : self[f] = old[f]

EncodingReversibleWitness ==
    /\ op = "MarshalJSON.UnmarshalJSON"
    /\ recvTyp = "NullInterval"
    /\ old = ZeroValue
    /\ lhs = IntervalFrom(9, 8, 7, 6, 5, 4)
    /\ arg.text = bytesNull
    /\ self = ZeroValue

\* C23: a parse failure is a returned error, never a silent zero and never
\* a panic that leaves Parse: every panic inside Parse is recovered into a
\* non-nil error; Parse returns nil with the receiver set to the value of
\* the text, or a non-nil error when the text has no value; ParseInterval
\* panics exactly when Parse returned an error and otherwise returns the
\* parsed value.
ParseReportsFailure ==
    [][/\ pc = "panic" => (pc' = "returned" /\ err' # NilErr)
       /\ (mode = "text" /\ pc # "returned" /\ pc' = "returned") =>
             IF reInterval(src) # {}
             THEN err' = NilErr /\ self' \in {reValue(c) : c \in reInterval(src)}
             ELSE err' # NilErr
       /\ (pc = "returned" /\ pc' \in {"panicked", "result"}) =>
             /\ pc' = "panicked" <=> err # NilErr
             /\ pc' = "result" => (err = NilErr /\ self' = self)]_vars

ParseReportsFailureWitness ==
    /\ pc = "panicked"
    /\ src = <<"P", "1", "Y", "X">>
    /\ err # NilErr
    /\ self = ZeroValue

\* C24: every error returned by Parse, of Interval or of NullInterval,
\* holds the whole input and the type name "interval", and wraps its
\* cause, which is the format mismatch, the expected digit or the end of
\* input, and which errors.Is still tells apart.
ParseErrorContext ==
    (op = "Parse" /\ err # NilErr) =>
        /\ err.src = arg.text
        /\ err.typ = "interval"
        /\ err.cause \in {"errFormatMismatch", "errDigitEof", "EOF"}
        /\ errorsIs(err, err.cause)
        /\ errorsIs(err, "errFormatMismatch") =>
              (~errorsIs(err, "EOF") /\ ~errorsIs(err, "errDigitEof"))
        /\ errorsIs(err, "errDigitEof") => errorsIs(err, "EOF")

ParseErrorContextWitness ==
    /\ op = "Parse"
    /\ recvTyp = "NullInterval"
    /\ arg.text = <<"P", "1", "Y", "X">>
    /\ err.cause = "errDigitEof"
    /\ err.src = arg.text
    /\ err.typ = "interval"

\* C25: the operations of NullInterval give what the operations of
\* Interval give on the same fields: Add, Sub, Neg, With<Field>,
\* Add<Field>, OnlyDate, OnlyTime, HasDate, HasTime, Date, Duration, with
\* its panic for a date part, and SetDuration.
NullOpsDelegate ==
    recvTyp = "NullInterval" =>
        /\ op = "Add" => res.iv = Add(lhs, rhs)
        /\ op = "Sub" => res.iv = Sub(lhs, rhs)
        /\ op = "Neg" => res.iv = Neg(lhs)
        /\ op = "With" => res.iv = WithField(lhs, res.text[1], dur)
        /\ op = "AddField" => res.iv = AddField(lhs, res.text[1], dur)
        /\ op = "OnlyDate" => res.iv = OnlyDate(lhs)
        /\ op = "OnlyTime" => res.iv = OnlyTime(lhs)
        /\ op = "HasDate" => res.flag = HasDate(lhs)
        /\ op = "HasTime" => res.flag = HasTime(lhs)
        /\ op = "Date" => res.text = <<lhs.Years, lhs.Months, lhs.Days>>
        /\ op = "Duration" => /\ res.panicked = Duration(lhs).panicked
                              /\ res.n = Duration(lhs).n
        /\ op = "SetDuration" => res.iv = SetDuration(dur)

NullOpsDelegateWitness ==
    /\ recvTyp = "NullInterval"
    /\ op = "Sub"
    /\ lhs = IntervalFrom(1, 2, 3, 4, 5, 6)
    /\ rhs = IntervalFrom(-19, 0, 100, 0, -120, 7)
    /\ res.iv = IntervalFrom(20, 2, -97, 4, 125, -1)

\* C29: With<Field>(n) gives the value with the named field equal to n,
\* Add<Field>(n) the value with the named field raised by n; the other
\* five fields are those of the receiver, and the receiver is not changed.
FieldUpdateLocal ==
    [][(recvTyp = "Interval" /\ op' \in {"With", "AddField"}) =>
          LET f == res'.text[1]
          IN  /\ lhs' = lhs
              /\ op' = "With" => res'.iv[f] = dur
              /\ op' = "AddField" => res'.iv[f] = lhs[f] + dur
              /\ \A g \in FieldNames \ {f} : res'.iv[g] = lhs[g]]_vars

FieldUpdateLocalWitness ==
    /\ recvTyp = "Interval"
    /\ op = "AddField"
    /\ lhs = IntervalFrom(1, 2, 3, 4, 5, 6)
    /\ dur = 60
    /\ res.text = <<"Minutes">>
    /\ res.iv = IntervalFrom(1, 2, 3, 4, 65, 6)

\* The time fields have one sign, and minutes and seconds are below 60 in
\* absolute value.
NormalTime(x) ==
    /\ \/ x.Hours >= 0 /\ x.Minutes >= 0 /\ x.Seconds >= 0
       \/ x.Hours <= 0 /\ x.Minutes <= 0 /\ x.Seconds <= 0
    /\ -60 < x.Minutes /\ x.Minutes < 60
    /\ -60 < x.Seconds /\ x.Seconds < 60

TotalSeconds(x) == x.Hours * 3600 + x.Minutes * 60 + x.Seconds

\* C30: DurationInterval(d).Duration() does not panic and is d truncated
\* toward zero to whole seconds; DurationInterval(v.Duration()) is v for a
\* time-only v with fields of one sign, |Minutes| < 60 and |Seconds| < 60,
\* and for any other time-only v it is the normalised value of the same
\* total, which is not v.
DurationRoundTrip ==
    /\ op = "DurationInterval.Duration" =>
          /\ ~res.panicked
          /\ res.n % Second = 0
          /\ IF dur >= 0
             THEN res.n <= dur /\ dur < res.n + Second
             ELSE dur <= res.n /\ res.n - Second < dur
    /\ op = "Duration.DurationInterval" =>
          /\ ~HasDate(lhs)
          /\ ~HasDate(res.iv)
          /\ NormalTime(res.iv)
          /\ TotalSeconds(res.iv) = TotalSeconds(lhs)
          /\ (res.iv = lhs) <=> NormalTime(lhs)

DurationRoundTripWitness ==
    /\ op = "Duration.DurationInterval"
    /\ lhs = TimeInterval(0, 0, 90)
    /\ res.n = 90 * Second
    /\ res.iv = TimeInterval(0, 1, 30)

\* C26: Scan by the dynamic type of its argument.  A string or a byte slice
\* is parsed as text, a time.Duration is converted as by SetDuration, an
\* Interval or a NullInterval is copied with its six fields; Interval.Scan
\* returns an error and keeps the receiver for any other argument that is
\* no Getter, nil included; NullInterval.Scan zeroes the receiver for nil,
\* a nil *time.Duration and a nil *Interval.
ScanDispatch ==
    op = "Scan" =>
        LET k == arg.kind
            isText == k \in {"string", "bytes", "nilBytes"}
        IN  /\ (isText /\ ~(recvTyp = "NullInterval" /\ arg.text = <<>>)) =>
                  /\ parsed
                  /\ err = parse(old, arg.text).err
                  /\ self = parse(old, arg.text).val
            /\ k = "duration" =>
                  /\ err = NilErr
                  /\ self = SetDuration(arg.dur)
            /\ k \in {"Interval", "NullInterval"} =>
                  /\ err = NilErr
                  /\ \A f \in FieldNames : self[f] = arg.iv[f]
            /\ (recvTyp = "Interval"
                   /\ k \in {"nil", "int", "nilPtrDuration", "ptrDuration"}) =>
                  /\ err # NilErr
                  /\ err.cause = "errScanType"
                  /\ ~res.panicked
                  /\ self = old
            /\ (recvTyp = "NullInterval"
                   /\ k \in {"nil", "nilPtrDuration", "nilPtrInterval"}) =>
                  /\ err = NilErr
                  /\ self = ZeroValue

ScanDispatchWitness ==
    /\ op = "Scan"
    /\ recvTyp = "Interval"
    /\ arg.kind = "NullInterval"
    /\ arg.iv = IntervalFrom(9, 8, 7, 6, 5, 4)
    /\ old = ZeroValue
    /\ err = NilErr
    /\ self = IntervalFrom(9, 8, 7, 6, 5, 4)

\* The labels of Interval.parse in the order of the source, then its two
\* ways out.
LabelOrder ==
    <<"start", "years", "months", "days", "time", "hours", "minutes",
      "seconds", "eof", "done", "panic">>

ParseLabels == {LabelOrder[i] : i \in 1..9}

\* C27: the parser makes one pass from left to right.  The cursor starts
\* at 0, never decreases and never exceeds len(src); a step that consumes
\* characters starts at an index below len(src); the label only moves
\* forward in the order start, years, months, days, time, hours, minutes,
\* seconds, eof, done, so no label is entered twice; and every label
\* reached has a next step, to a later label, so the parse ends in success
\* or in an error.
SinglePass ==
    [][/\ pc' = "start" => cur' = 0
       /\ pc \in ParseLabels =>
             /\ src' = src
             /\ cur <= cur'
             /\ cur' <= Len(src)
             /\ cur' > cur => cur < Len(src)
             /\ pc' \in (ParseLabels \ {"start"}) \cup {"done", "panic"}
             /\ Rank(LabelOrder, pc') > Rank(LabelOrder, pc)
       /\ pc \in {"done", "panic"} =>
             /\ pc' = "returned"
             /\ cur' = cur
             /\ (pc = "done") <=> (err' = NilErr)
       /\ pc' \in ParseLabels =>
             Rank(LabelOrder, step(src', Locals').pc) > Rank(LabelOrder, pc')]_vars

SinglePassWitness ==
    /\ pc = "returned"
    /\ src = <<"P", "1", "0", "D">>
    /\ cur = 4
    /\ asg = <<"Days">>
    /\ err = NilErr

\* The position of the first 'T' of a text, or one past its end.
TPos(s) ==
    IF \E i \in 1..Len(s) : s[i] = "T"
    THEN CHOOSE i \in 1..Len(s) :
            s[i] = "T" /\ \A j \in 1..(i - 1) : s[j] # "T"
    ELSE Len(s) + 1

HasAt(s, c, lo, hi) == \E i \in lo..hi : s[i] = c

\* The text has the unit of the field: Y, M, D before the 'T', and H, M, S
\* after it.
Mentioned(s, f) ==
    CASE f = "Years" -> HasAt(s, "Y", 1, TPos(s) - 1)
      [] f = "Months" -> HasAt(s, "M", 1, TPos(s) - 1)
      [] f = "Days" -> HasAt(s, "D", 1, TPos(s) - 1)
      [] f = "Hours" -> HasAt(s, "H", TPos(s) + 1, Len(s))
      [] f = "Minutes" -> HasAt(s, "M", TPos(s) + 1, Len(s))
      [] f = "Seconds" -> HasAt(s, "S", TPos(s) + 1, Len(s))

\* C28: when Interval.Parse returns an error the receiver is what it was
\* before the call, with no field of the failed parse in it; when it
\* returns nil every field the text does not mention is 0 and the result
\* is the one a zero receiver gets, whatever the receiver held.
ParseFrame ==
    (op = "Parse" /\ recvTyp = "Interval") =>
        /\ err # NilErr => self = old
        /\ err = NilErr =>
              /\ \A f \in FieldNames :
                    ~Mentioned(arg.text, f) => self[f] = 0
              /\ self = parse(ZeroValue, arg.text).val

ParseFrameWitness ==
    /\ op = "Parse"
    /\ recvTyp = "Interval"
    /\ old = IntervalFrom(9, 8, 7, 6, 5, 4)
    /\ arg.text = String(IntervalFrom(10, -10, 0, 0, 0, 0))
    /\ err = NilErr
    /\ self = IntervalFrom(10, -10, 0, 0, 0, 0)

====
